---- MODULE Spec2Model ----
(***************************************************************************)
(* Ong Jump: the pygame game loop (ong_jump.py) and the Kivy widget         *)
(* (ong_jump_kivy.py) as one state machine.  A behaviour runs one of the    *)
(* two variants, chosen in Init.                                            *)
(*                                                                          *)
(* Numbers.  The code computes with Python floats; the model keeps them as  *)
(* integers in fixed units, exact for the inputs it draws:                  *)
(*   speed                 ten-thousandths (6.0 is 60000)                   *)
(*   distance              a pair: whole tens, and the rest in 1/100000     *)
(*   vel_y                 tenths (1.2 is 12)                               *)
(*   pygame positions      pixels (pygame.Rect holds integers)              *)
(*   pygame Stone.speed    millionths                                       *)
(*   Kivy positions        stones in millionths of a pixel, player_y in     *)
(*                         tenths of a pixel                                *)
(*   dt                    milliseconds (Kivy's dt in seconds is dt/1000)   *)
(* Drawing, sound, the splash screen, run_time, road_offset and night mode  *)
(* do not act on the simulation and are left out.                           *)
(***************************************************************************)
EXTENDS Integers, Sequences, FiniteSets, TLC

VARIABLES
    variant,        \* "pygame" or "kivy"
    machine,        \* [frame_ms: the frame times this machine's clock delivers,
                    \*  horizon: the frames simulated on it,
                    \*  steady_ms: the frame time after a round's first frame (0: the same)]
    pc,             \* pygame: "menu", "tick", "events", "over"; kivy: "widget"
    dt,             \* the frame time the clock delivers, in ms
    ticks,          \* frames simulated in this session
    clock_ms,       \* pygame: ms of play that clock.tick has delivered in this session
    rounds,         \* rounds started in this session
    speed,
    distance,       \* [whole |-> distance // 10, frac |-> the rest, in 1/100000]
    score,
    highscore,
    file,           \* highscore.txt: [exists, text]
    player_y,       \* pygame: player.rect.bottom (y grows downwards); kivy: player_y (y grows upwards)
    vel_y,
    on_ground,
    jump_cooldown,
    stones,         \* sequence of [id, x, speed], in spawn order
    spawned,        \* stones spawned in this round (the next stone's id)
    timer_ms,       \* pygame: interval of the SPAWN_EVENT timer
    timer_elapsed,  \* pygame: ms since the timer was set
    pending,        \* pygame: SPAWN_EVENTs waiting in the event queue
    stone_gap,      \* kivy: self.stone_gap
    game_running,   \* kivy
    game_over,      \* kivy
    scheduled,      \* kivy: update callbacks scheduled on the Clock
    jumps,          \* jump commands handled since the last frame update
    accepted,       \* of these, the ones that passed the guard of the jump
    writes,         \* save_highscore calls in this round
    failed_best     \* the last best score whose save failed (0: none)

vars == <<variant, machine, pc, dt, ticks, clock_ms, rounds, speed, distance, score, highscore, file,
          player_y, vel_y, on_ground, jump_cooldown, stones, spawned, timer_ms,
          timer_elapsed, pending, stone_gap, game_running, game_over, scheduled,
          jumps, accepted, writes, failed_best>>

----------------------------------------------------------------------------
(* Bounds of the model *)

\* frames simulated in one session
MaxTicks == 22

\* seconds a pygame session plays
MaxSeconds == 10

\* frames simulated in one session of the Kivy widget
MaxKvTicks == 26

\* frames simulated in a session on the slow-stone machine
MaxSlowTicks == 80

\* rounds started in one session
MaxRounds == 2

\* jump commands handled between two frame updates
MaxJumpCmds == 2

----------------------------------------------------------------------------
(* Units *)

SpeedUnit == 10 * 1000

DistUnit == 1000 * 1000

StoneSpeedUnit == 1000 * 1000

KvPosUnit == 1000 * 1000

VelUnit == 2 * 5

----------------------------------------------------------------------------
(* Configuration, ong_jump.py lines 26-36 and ong_jump_kivy.py lines 57-85 *)

WIDTH == 1000

HEIGHT == 560

GROUND_Y == HEIGHT - 120

PLAYER_X == 140

PLAYER_SIZE == 80

STONE_W == 60

STONE_H == 32

GRAVITY == 12

JUMP_VELOCITY == -130

JUMP_COOLDOWN == 8

INITIAL_SPEED == 6 * SpeedUnit

MAX_SPEED == 13 * SpeedUnit

\* 0.0009 per ms
SPEED_INCREASE_RATE == 9

MIN_STONE_GAP == 220

MAX_STONE_GAP == 340

\* Stone.update removes a stone once rect.right < -50
KILL_RIGHT == -50

KV_GROUND_Y == 120 * VelUnit

\* the frame times clock.tick(FPS) delivers: 60 frames a second, 5, and 1
PgDtSet == {17, 200, 1000}

\* a frame time at which a stone moves less than 50 px per frame
SlowDtSet == {50}

\* Kivy: 20 frames a second, and a frame after the application was suspended a minute
KvDtSet == {50, 60000}

\* FPS
FPS == 60

\* the frame time at FPS frames per second, in whole ms as clock.tick gives it
NominalDt == (1000 + FPS - 1) \div FPS

\* the frame time of a stalled frame
StallDtSet == {1000 * FPS}

\* random.randint(min_gap, max_gap): the ends of the range
GapSet == {MIN_STONE_GAP, MAX_STONE_GAP}

\* random.uniform(0.0, 1.0): the ends of the range
OffsetSet == {0, StoneSpeedUnit}

\* random.randint(1400, 1800), the first spawn interval of a round
FirstSpawnSet == {1400, 1800}

\* random.randint(20, 120), Kivy's offset of a new stone beyond the right edge
KvSpawnOffsetSet == {20, 120}

----------------------------------------------------------------------------
(* highscore.txt.  A character is a digit 0..9, or 10 for any other one. *)

NoFile == [exists |-> FALSE, text |-> <<>>]

TextFile(t) == [exists |-> TRUE, text |-> t]

\* what highscore.txt holds when the session starts
InitialFiles == {NoFile, TextFile(<<2, 5, 0>>)}

RECURSIVE StrOfInt(_)
\* str(int(score)) for score >= 0
StrOfInt(n) == IF n < 10 THEN <<n>> ELSE Append(StrOfInt(n \div 10), n % 10)

RECURSIVE DigitsValue(_)
DigitsValue(t) ==
    IF t = <<>> THEN 0
    ELSE 10 * DigitsValue(SubSeq(t, 1, Len(t) - 1)) + t[Len(t)]

\* int(f.read().strip() or "0"); ValueError is caught and gives 0
ParseInt(t) ==
    IF t = <<>> THEN 0
    ELSE IF \A i \in 1..Len(t) : t[i] \in 0..9 THEN DigitsValue(t)
    ELSE 0

load_highscore(f) == IF f.exists THEN ParseInt(f.text) ELSE 0

\* the three ways save_highscore can end: written; open() raises and the file is
\* as it was; open() has truncated the file and write() raises
SaveOutcomes == {"written", "open_fails", "write_fails"}

save_highscore(f, n, outcome) ==
    IF outcome = "written" THEN TextFile(StrOfInt(n))
    ELSE IF outcome = "write_fails" THEN TextFile(<<>>)
    ELSE f

----------------------------------------------------------------------------
(* Arithmetic *)

Max(a, b) == IF a >= b THEN a ELSE b

Min(a, b) == IF a <= b THEN a ELSE b

\* floor(a * b / 10^8) for a, b >= 0, without forming a * b
MulShift8(a, b) ==
    LET a1 == a \div 10000
        a0 == a % 10000
        b1 == b \div 10000
        b0 == b % 10000
        mid == a1 * b0 + a0 * b1
        low == (mid % 10000) * 10000 + a0 * b0
    IN  a1 * b1 + (mid \div 10000) + (low \div 100000000)

\* int(vel_y).  int() cuts towards zero.  vel_y is the float sum -13 + 1.2 + 1.2 + ...,
\* which falls just below the integers 5 and 11 (4.999999999999998 after 15 additions,
\* 10.999999999999996 after 20) and is cut to 4 and 10 there.
IntOfVel(v) ==
    IF v < 0 THEN -((-v) \div VelUnit)
    ELSE IF v > 0 /\ v % VelUnit = 0 THEN (v \div VelUnit) - 1
    ELSE v \div VelUnit

ZeroDistance == [whole |-> 0, frac |-> 0]

\* distance += speed * (dt / 1000.0) * 100, which is speed * dt in 1/100000
AddDistance(d, s, ms) ==
    LET secs == s * (ms \div 1000)
        rest == d.frac + (secs % 1000) * 1000 + s * (ms % 1000)
    IN  [whole |-> d.whole + (secs \div 1000) + (rest \div DistUnit),
         frac  |-> rest % DistUnit]

\* the ramp without the cap of MAX_SPEED
IncreaseSpeedUncapped(s, ms) == s + SPEED_INCREASE_RATE * ms

\* speed += SPEED_INCREASE_RATE * dt; if speed > MAX_SPEED: speed = MAX_SPEED
IncreaseSpeed(s, ms) == Min(MAX_SPEED, s + SPEED_INCREASE_RATE * ms)

\* round(distance / 10) in place of the floor
ScoreRounded(d) == IF 2 * d.frac >= DistUnit THEN d.whole + 1 ELSE d.whole

\* new_score = int(distance // 10)
ScoreOf(d) == d.whole

----------------------------------------------------------------------------
(* Stones *)

StoneRightPg(s) == s.x + STONE_W

\* int(self.speed * speed_multiplier * (dt / 16.67)) with speed_multiplier =
\* speed / INITIAL_SPEED: stone speed * speed * dt / (6 * 16.67), cut to an integer
StoneMove(s, cur, ms) == MulShift8(s.speed, cur * ms) \div 10002

\* Stone.update: move left; kill() once rect.right < -50
StoneUpdate(s, cur, ms) == [s EXCEPT !.x = s.x - StoneMove(s, cur, ms)]

\* a kill at twice the margin
StoneAliveLate(s) == ~(StoneRightPg(s) < 2 * KILL_RIGHT)

\* if self.rect.right < -50: self.kill()
StoneAlivePg(s) == ~(StoneRightPg(s) < KILL_RIGHT)

\* for stone in list(stone_group): stone.update(speed / INITIAL_SPEED, dt)
UpdateStonesPg(ss, cur, ms) ==
    LET moved == [i \in 1..Len(ss) |-> StoneUpdate(ss[i], cur, ms)]
    IN  SelectSeq(moved, StoneAlivePg)

RECURSIVE MaxRight(_)
\* max(stone.rect.right for stone in stone_group), for a group that is not empty
MaxRight(ss) ==
    IF Len(ss) = 1 THEN StoneRightPg(ss[1])
    ELSE Max(StoneRightPg(ss[1]), MaxRight(Tail(ss)))

\* x = max(WIDTH, last_x + gap), last_x the right edge of the rightmost stone,
\* or WIDTH when there is none
SpawnX(ss, gap) ==
    LET last_x == IF Len(ss) > 0 THEN MaxRight(ss) ELSE WIDTH
    IN  Max(WIDTH, last_x + gap)

\* Stone(x, speed = current_speed * 0.85 + random.uniform(0.0, 1.0))
spawn_stone_group(ss, cur, id, gap, off) ==
    Append(ss, [id |-> id, x |-> SpawnX(ss, gap), speed |-> 85 * cur + off])

\* min_spawn = max(700, int(1800 - speed * 80))
MinSpawn(cur) == Max(700, (1800 * SpeedUnit - 80 * cur) \div SpeedUnit)

\* max_spawn = max(1100, int(2200 - speed * 100))
MaxSpawn(cur) == Max(1100, (2200 * SpeedUnit - 100 * cur) \div SpeedUnit)

\* pygame.sprite.collide_mask on the fallback surfaces, which are opaque all over:
\* the 80x80 player rectangle, midbottom at (PLAYER_X, bottom), and the 60x32 stone
\* rectangle, bottomleft at (x, GROUND_Y), share a pixel
CollidePg(bottom, s) ==
    /\ s.x < PLAYER_X + PLAYER_SIZE \div 2
    /\ s.x + STONE_W > PLAYER_X - PLAYER_SIZE \div 2
    /\ GROUND_Y - STONE_H < bottom
    /\ GROUND_Y > bottom - PLAYER_SIZE

\* pygame.sprite.spritecollideany(player, stone_group, ...)
CollidedPg(bottom, ss) == \E i \in 1..Len(ss) : CollidePg(bottom, ss[i])

----------------------------------------------------------------------------
(* The pygame player *)

\* Player.jump: the guard
JumpAllowed == on_ground /\ jump_cooldown = 0

\* Player.update: the position after gravity, before the ground is looked at
FallenBottom == player_y + IntOfVel(vel_y + GRAVITY)

Landed == FallenBottom >= GROUND_Y

\* the fall without the ground collision
UnclampedBottom == FallenBottom

\* if self.rect.bottom >= GROUND_Y: self.rect.bottom = GROUND_Y
ClampedBottom == IF Landed THEN GROUND_Y ELSE FallenBottom

----------------------------------------------------------------------------
(* The pygame game, main() *)

Pygame == variant = "pygame"

\* a new Player(), stone group and counters: main() lines 285-322
FreshRoundPg ==
    /\ speed' = INITIAL_SPEED
    /\ distance' = ZeroDistance
    /\ score' = 0
    /\ player_y' = GROUND_Y
    /\ vel_y' = 0
    /\ on_ground' = TRUE
    /\ jump_cooldown' = 0
    /\ stones' = <<>>
    /\ spawned' = 0
    /\ pending' = 0
    /\ timer_elapsed' = 0
    /\ jumps' = 0
    /\ accepted' = 0
    /\ writes' = 0

\* Enter on "Start Game": the menu loop ends, the round is reset and the spawn
\* timer is set
PgMenuStart ==
    /\ Pygame
    /\ pc = "menu"
    /\ rounds < MaxRounds
    /\ \E ms \in machine.frame_ms, first \in FirstSpawnSet :
        /\ dt' = ms
        /\ timer_ms' = first
    /\ FreshRoundPg
    /\ pc' = "tick"
    /\ rounds' = rounds + 1
    /\ UNCHANGED <<variant, machine, ticks, clock_ms, highscore, file, stone_gap, game_running,
                   game_over, scheduled, failed_best>>

\* dt = clock.tick(FPS): the frame begins, and the timer has posted its events
PgClockTick ==
    /\ Pygame
    /\ pc = "tick"
    /\ ticks < machine.horizon
    /\ clock_ms < MaxSeconds * 1000
    /\ pc' = "events"
    /\ clock_ms' = clock_ms + dt
    /\ timer_elapsed' = timer_elapsed + dt
    /\ pending' = pending + (timer_elapsed + dt) \div timer_ms
    /\ UNCHANGED <<variant, machine, dt, ticks, rounds, speed, distance, score, highscore, file,
                   player_y, vel_y, on_ground, jump_cooldown, stones, spawned,
                   timer_ms, stone_gap, game_running, game_over, scheduled, jumps,
                   accepted, writes, failed_best>>

\* ev.type == SPAWN_EVENT
PgSpawnEvent ==
    /\ Pygame
    /\ pc = "events"
    /\ pending > 0
    /\ \E gap \in GapSet, off \in OffsetSet :
        stones' = spawn_stone_group(stones, speed, spawned, gap, off)
    /\ \E next_ms \in {MinSpawn(speed), MaxSpawn(speed)} : timer_ms' = next_ms
    /\ spawned' = spawned + 1
    /\ timer_elapsed' = 0
    /\ pending' = pending - 1
    /\ UNCHANGED <<variant, machine, pc, dt, ticks, clock_ms, rounds, speed, distance, score, highscore,
                   file, player_y, vel_y, on_ground, jump_cooldown, stone_gap,
                   game_running, game_over, scheduled, jumps, accepted, writes,
                   failed_best>>

\* ev.key == pygame.K_SPACE: player.jump()
PgKeySpace ==
    /\ Pygame
    /\ pc = "events"
    /\ jumps < MaxJumpCmds
    /\ jumps' = jumps + 1
    /\ IF JumpAllowed
       THEN /\ vel_y' = JUMP_VELOCITY
            /\ on_ground' = FALSE
            /\ jump_cooldown' = JUMP_COOLDOWN
            /\ accepted' = accepted + 1
       ELSE UNCHANGED <<vel_y, on_ground, jump_cooldown, accepted>>
    /\ UNCHANGED <<variant, machine, pc, dt, ticks, clock_ms, rounds, speed, distance, score, highscore,
                   file, player_y, stones, spawned, timer_ms, timer_elapsed, pending,
                   stone_gap, game_running, game_over, scheduled, writes, failed_best>>

\* a loop that goes on after a collision
FrameOutcomeKeepsPlaying(collided) == "tick"

\* if collided: ... game_over_screen(score, highscore); otherwise the loop goes on
FrameOutcome(collided) == IF collided THEN "over" ELSE "tick"

\* score >= highscore in place of the strict comparison
IsNewBestOrEqual(final, best) == final >= best

\* if score > highscore
IsNewBest(final, best) == final > best

\* the rest of the frame, after the event loop: speed, distance and score, the
\* sprites, the collision and, on a collision, the end of the round
PgUpdate ==
    /\ Pygame
    /\ pc = "events"
    /\ pending = 0
    /\ LET new_speed == IncreaseSpeed(speed, dt)
           new_distance == AddDistance(distance, new_speed, dt)
           new_score == ScoreOf(new_distance)
           bottom == ClampedBottom
           moved == UpdateStonesPg(stones, new_speed, dt)
           collided == CollidedPg(bottom, moved)
           improved == collided /\ IsNewBest(new_score, highscore)
       IN  /\ speed' = new_speed
           /\ distance' = new_distance
           /\ score' = new_score
           /\ player_y' = bottom
           /\ vel_y' = IF Landed THEN 0 ELSE vel_y + GRAVITY
           /\ on_ground' = Landed
           /\ jump_cooldown' = IF jump_cooldown > 0 THEN jump_cooldown - 1 ELSE 0
           /\ stones' = moved
           /\ pc' = FrameOutcome(collided)
           /\ highscore' = IF improved THEN new_score ELSE highscore
           /\ writes' = IF improved THEN writes + 1 ELSE writes
           /\ \E outcome \in SaveOutcomes :
                /\ file' = IF improved
                           THEN save_highscore(file, new_score, outcome)
                           ELSE file
                /\ failed_best' = IF improved /\ outcome # "written"
                                  THEN new_score
                                  ELSE failed_best
    /\ ticks' = ticks + 1
    /\ jumps' = 0
    /\ accepted' = 0
    /\ UNCHANGED <<variant, machine, dt, clock_ms, rounds, spawned, timer_ms, timer_elapsed,
                   pending, stone_gap, game_running, game_over, scheduled>>

\* Enter on the game-over screen: main() is called again, and reads the file
PgPlayAgain ==
    /\ Pygame
    /\ pc = "over"
    /\ pc' = "menu"
    /\ highscore' = load_highscore(file)
    /\ FreshRoundPg
    /\ UNCHANGED <<variant, machine, dt, ticks, clock_ms, rounds, file, timer_ms, stone_gap,
                   game_running, game_over, scheduled, failed_best>>

\* main() up to the menu: the highscore is read, the objects are made
InitPgOn(m) ==
    /\ variant = "pygame"
    /\ machine = m
    /\ pc = "menu"
    /\ dt = 17
    /\ ticks = 0
    /\ clock_ms = 0
    /\ rounds = 0
    /\ speed = INITIAL_SPEED
    /\ distance = ZeroDistance
    /\ score = 0
    /\ file \in InitialFiles
    /\ highscore = load_highscore(file)
    /\ player_y = GROUND_Y
    /\ vel_y = 0
    /\ on_ground = TRUE
    /\ jump_cooldown = 0
    /\ stones = <<>>
    /\ spawned = 0
    /\ timer_ms = 1040
    /\ timer_elapsed = 0
    /\ pending = 0
    /\ stone_gap = MIN_STONE_GAP
    /\ game_running = FALSE
    /\ game_over = FALSE
    /\ scheduled = 0
    /\ jumps = 0
    /\ accepted = 0
    /\ writes = 0
    /\ failed_best = 0

InitPg == InitPgOn([frame_ms |-> PgDtSet, horizon |-> MaxTicks, steady_ms |-> 0])

\* the same program on a machine whose frames are short enough for a stone to
\* move less than 50 px per frame
InitSlow == InitPgOn([frame_ms |-> SlowDtSet, horizon |-> MaxSlowTicks, steady_ms |-> 0])

NextPg ==
    \/ PgMenuStart
    \/ PgClockTick
    \/ PgSpawnEvent
    \/ PgKeySpace
    \/ PgUpdate
    \/ PgPlayAgain


----------------------------------------------------------------------------
(* The Kivy widget, OngJumpWidget *)

Kivy == variant = "kivy"

\* stone['x'] -= self.speed * (dt * 60 / 1000), dt in seconds: speed * ms * 6 / 1000
\* millionths of a pixel
KvStoneMove(cur, ms) == (cur * 6) * (ms \div 1000) + ((cur * 6) * (ms % 1000)) \div 1000

\* self.stones = [s for s in self.stones if s['x'] + s['w'] > 0]
KvStoneAlive(s) == s.x + STONE_W * KvPosUnit > 0

KvMoveStones(ss, cur, ms) ==
    LET moved == [i \in 1..Len(ss) |-> [ss[i] EXCEPT !.x = ss[i].x - KvStoneMove(cur, ms)]]
    IN  SelectSeq(moved, KvStoneAlive)

\* len(self.stones) == 0 or self.stones[-1]['x'] < self.WIDTH - self.stone_gap
KvSpawnDue(ss, gap) ==
    \/ Len(ss) = 0
    \/ ss[Len(ss)].x < (WIDTH - gap) * KvPosUnit

\* new_x = self.WIDTH + random.randint(20, 120)
KvNewStone(id, r) == [id |-> id, x |-> (WIDTH + r) * KvPosUnit, speed |-> 0]

\* rects_collide((PLAYER_X, player_y, 80, 80), (x, GROUND_Y - 32, 60, 32)), with
\* GROUND_Y = 120 and y growing upwards
KvCollide(y, s) ==
    /\ PLAYER_X * KvPosUnit < s.x + STONE_W * KvPosUnit
    /\ (PLAYER_X + PLAYER_SIZE) * KvPosUnit > s.x
    /\ y < KV_GROUND_Y
    /\ y + PLAYER_SIZE * VelUnit > KV_GROUND_Y - STONE_H * VelUnit

KvCollided(y, ss) == \E i \in 1..Len(ss) : KvCollide(y, ss[i])

\* reset_game
reset_game(gap) ==
    /\ player_y' = KV_GROUND_Y
    /\ vel_y' = 0
    /\ on_ground' = TRUE
    /\ stones' = <<>>
    /\ spawned' = 0
    /\ score' = 0
    /\ highscore' = 0
    /\ speed' = INITIAL_SPEED
    /\ distance' = ZeroDistance
    /\ stone_gap' = gap

\* start: reset_game, and one more update callback on the Clock
KvStartGame(gap, ms) ==
    /\ reset_game(gap)
    /\ game_running' = TRUE
    /\ game_over' = FALSE
    /\ scheduled' = scheduled + 1
    /\ rounds' = rounds + 1
    /\ dt' = ms

\* GameScreen.on_enter, when the menu's Start button shows the game screen
KvStart ==
    /\ Kivy
    /\ scheduled = 0
    /\ \E gap \in GapSet, ms \in machine.frame_ms : KvStartGame(gap, ms)
    /\ jumps' = 0
    /\ accepted' = 0
    /\ UNCHANGED <<variant, machine, pc, ticks, clock_ms, file, jump_cooldown, timer_ms, timer_elapsed,
                   pending, writes, failed_best>>

\* _on_key_down with keycode 'spacebar'
KvKeyDown ==
    /\ Kivy
    /\ jumps < MaxJumpCmds
    /\ jumps' = jumps + 1
    /\ IF game_over
       THEN /\ \E gap \in GapSet, ms \in machine.frame_ms : KvStartGame(gap, ms)
            /\ accepted' = accepted
       ELSE /\ vel_y' = IF on_ground THEN JUMP_VELOCITY ELSE vel_y
            /\ accepted' = IF on_ground THEN accepted + 1 ELSE accepted
            /\ UNCHANGED <<player_y, on_ground, stones, spawned, score, highscore,
                           speed, distance, stone_gap, game_running, game_over,
                           scheduled, rounds, dt>>
    /\ UNCHANGED <<variant, machine, pc, ticks, clock_ms, file, jump_cooldown, timer_ms, timer_elapsed,
                   pending, writes, failed_best>>

\* update(dt), called by the Clock while the game is running
KvUpdate ==
    /\ Kivy
    /\ scheduled > 0
    /\ game_running
    /\ ticks < machine.horizon
    /\ LET new_vel == vel_y + GRAVITY
           new_y == player_y + new_vel
           grounded == new_y <= KV_GROUND_Y
           y == IF grounded THEN KV_GROUND_Y ELSE new_y
           new_speed == IncreaseSpeed(speed, dt)
           moved == KvMoveStones(stones, new_speed, dt)
           due == KvSpawnDue(moved, stone_gap)
           collided(ss) == KvCollided(y, ss)
           new_distance == AddDistance(distance, new_speed, dt)
       IN  /\ player_y' = y
           /\ vel_y' = IF grounded THEN 0 ELSE new_vel
           /\ on_ground' = grounded
           /\ speed' = new_speed
           /\ \E r \in KvSpawnOffsetSet, gap \in GapSet :
                /\ stones' = IF due THEN Append(moved, KvNewStone(spawned, r)) ELSE moved
                /\ stone_gap' = IF due THEN gap ELSE stone_gap
           /\ spawned' = IF due THEN spawned + 1 ELSE spawned
           /\ game_running' = ~collided(stones')
           /\ game_over' = collided(stones')
           /\ highscore' = IF collided(stones') /\ score > highscore THEN score ELSE highscore
           /\ distance' = new_distance
           /\ score' = ScoreOf(new_distance)
    /\ ticks' = ticks + 1
    /\ jumps' = 0
    /\ accepted' = 0
    /\ dt' = IF machine.steady_ms = 0 THEN dt ELSE machine.steady_ms
    /\ UNCHANGED <<variant, machine, pc, clock_ms, rounds, file, jump_cooldown, timer_ms,
                   timer_elapsed, pending, scheduled, writes, failed_best>>

\* OngJumpWidget.__init__: reset_game, the game not running
InitKvOn(m) ==
    /\ variant = "kivy"
    /\ machine = m
    /\ pc = "widget"
    /\ dt = 50
    /\ ticks = 0
    /\ clock_ms = 0
    /\ rounds = 0
    /\ speed = INITIAL_SPEED
    /\ distance = ZeroDistance
    /\ score = 0
    /\ file = NoFile
    /\ highscore = 0
    /\ player_y = KV_GROUND_Y
    /\ vel_y = 0
    /\ on_ground = TRUE
    /\ jump_cooldown = 0
    /\ stones = <<>>
    /\ spawned = 0
    /\ timer_ms = 0
    /\ timer_elapsed = 0
    /\ pending = 0
    /\ stone_gap \in GapSet
    /\ game_running = FALSE
    /\ game_over = FALSE
    /\ scheduled = 0
    /\ jumps = 0
    /\ accepted = 0
    /\ writes = 0
    /\ failed_best = 0

InitKv == InitKvOn([frame_ms |-> KvDtSet, horizon |-> MaxKvTicks, steady_ms |-> 0])

\* the same widget on a clock that stalls once: the first frame of a round
\* takes a minute (the app was in the background), every later one 1/60 s
InitStall == InitKvOn([frame_ms |-> StallDtSet, horizon |-> MaxKvTicks,
                       steady_ms |-> NominalDt])

NextKv ==
    \/ KvStart
    \/ KvKeyDown
    \/ KvUpdate

----------------------------------------------------------------------------
(* Both variants *)

Init == InitPg \/ InitKv

Next == NextPg \/ NextKv

Spec == Init /\ [][Next]_vars

\* both variants, pygame on the slow-stone machine
SpecSlow == (InitSlow \/ InitKv) /\ [][Next]_vars

\* both variants, the Kivy widget on the clock that stalls once
SpecStall == (InitPg \/ InitStall) /\ [][Next]_vars

----------------------------------------------------------------------------
(* Words of the claims *)

\* a frame update: the one step that counts a tick
TickStep == ticks' = ticks + 1

\* the round is over: the game-over screen (pygame), game_over (Kivy)
Ended == pc = "over" \/ game_over

\* a round is being played
Running == pc \in {"tick", "events"} \/ game_running

\* the state between two frames: no event of the next frame has been handled
EndOfTick == (Pygame /\ pc \in {"tick", "over"}) \/ (Kivy /\ jumps = 0)

\* a round starts: Enter in the pygame menu, start() in Kivy
RoundStart == rounds' = rounds + 1

\* Enter on the pygame game-over screen, spacebar on Kivy's
Restart == (pc = "over" /\ pc' = "menu") \/ (game_over /\ ~game_over')

\* the unit of stone positions
PosUnit == IF Pygame THEN 1 ELSE KvPosUnit

\* the collision check, on the positions a frame update has left
Collision ==
    IF Pygame THEN CollidedPg(player_y, stones) ELSE KvCollided(player_y, stones)

----------------------------------------------------------------------------
(* C1: Collision terminality.  A frame update whose collision check finds a
   collision leaves the round Ended; a step taken in an Ended round either
   keeps it Ended with the stones and the speed as they were, or is the
   restart, which adds no stone and does not raise the speed. *)
CollisionTerminal ==
    [][ /\ (TickStep /\ Collision') => Ended'
        /\ Ended => \/ Ended' /\ stones' = stones /\ speed' = speed
                    \/ Restart /\ stones' = <<>> /\ speed' <= speed ]_vars

\* a round ended by a stone that overlaps the player
CollisionTerminalWitness ==
    /\ Ended
    /\ Collision
    /\ Len(stones) > 0
    /\ speed > INITIAL_SPEED

----------------------------------------------------------------------------
(* C2: Spawn gap invariant.  Whenever a stone is spawned while other stones
   are in the set, its left edge is at or beyond the right screen edge WIDTH
   and at least MIN_STONE_GAP to the right of the right edge of every stone
   already there. *)
SpawnGap ==
    [][ (spawned' = spawned + 1 /\ Len(stones') > 1) =>
            LET new == stones'[Len(stones')]
            IN  /\ new.x >= WIDTH * PosUnit
                /\ \A i \in 1..(Len(stones') - 1) :
                      new.x >= stones'[i].x + (STONE_W + MIN_STONE_GAP) * PosUnit ]_vars

----------------------------------------------------------------------------
(* C3: Jump gating.  In a running round a jump command handled while
   on_ground is false or the cooldown is above 0 leaves vel_y, on_ground and
   the cooldown as they were, and of the jump commands handled between two
   frame updates at most one is accepted. *)
JumpGating ==
    [][ /\ (Running /\ jumps' = jumps + 1 /\ (~on_ground \/ jump_cooldown > 0)) =>
              /\ vel_y' = vel_y
              /\ on_ground' = on_ground
              /\ jump_cooldown' = jump_cooldown
        /\ (Running /\ jumps' = jumps + 1) => accepted' <= 1 ]_vars

----------------------------------------------------------------------------
(* C4: Accepted jump.  A jump command handled in a running round while the
   player is on the ground with cooldown 0 sets vel_y to JUMP_VELOCITY, clears
   on_ground and starts the cooldown, and the frame update that follows leaves
   on_ground false. *)
AcceptedJump ==
    [][ /\ (Running /\ jumps' = jumps + 1 /\ on_ground /\ jump_cooldown = 0) =>
              /\ vel_y' = JUMP_VELOCITY
              /\ ~on_ground'
              /\ jump_cooldown' = JUMP_COOLDOWN
        /\ (TickStep /\ accepted > 0) => ~on_ground' ]_vars

----------------------------------------------------------------------------
(* C5: Monotonic difficulty.  A round starts with speed INITIAL_SPEED, no step
   of a round lowers the speed, and the speed never exceeds MAX_SPEED. *)
MonotonicDifficulty ==
    [][ /\ RoundStart => speed' = INITIAL_SPEED
        /\ (~RoundStart /\ ~Restart) => speed' >= speed
        /\ speed' <= MAX_SPEED ]_vars

\* the pygame ramp has reached the cap and been clamped there
MonotonicDifficultyWitness ==
    /\ Pygame
    /\ speed = MAX_SPEED
    /\ INITIAL_SPEED + SPEED_INCREASE_RATE * dt * ticks > MAX_SPEED

----------------------------------------------------------------------------
(* C6: Ground clamp.  The player is never below the ground baseline, and
   between two frames a player at the baseline has vertical velocity 0 and
   on_ground true. *)
BelowGround == IF Pygame THEN player_y > GROUND_Y ELSE player_y < KV_GROUND_Y

AtBaseline == IF Pygame THEN player_y = GROUND_Y ELSE player_y = KV_GROUND_Y

GroundClamp ==
    /\ ~BelowGround
    /\ (EndOfTick /\ AtBaseline) => (vel_y = 0 /\ on_ground)

\* a frame update of the Kivy widget has set a moving player on the baseline:
\* a Kivy player that is not moved down by a jump leaves the baseline with the
\* first update and only rises
GroundClampWitness ==
    /\ Kivy
    /\ EndOfTick
    /\ ticks > 0
    /\ AtBaseline
    /\ vel_y = 0
    /\ on_ground

----------------------------------------------------------------------------
(* C7: Obstacle exit.  As claimed: a stone whose right edge is left of 0
   when a frame begins is no longer in the set when that frame's update is
   done. *)
StoneRight(s) == IF Pygame THEN StoneRightPg(s) * PosUnit ELSE s.x + STONE_W * PosUnit

StoneIds(ss) == {ss[i].id : i \in 1..Len(ss)}

ObstacleExit ==
    [][ TickStep =>
          \A i \in 1..Len(stones) :
              StoneRight(stones[i]) < 0 => stones[i].id \notin StoneIds(stones') ]_vars

(* C7, amended: between two frames no stone of the set has its right edge
   more than 50 px left of the screen (pygame) or at or left of the screen's
   left edge (Kivy); a frame update removes every such stone. *)
ObstacleExitMargin ==
    EndOfTick =>
        \A i \in 1..Len(stones) :
            IF Pygame
            THEN StoneRight(stones[i]) >= KILL_RIGHT
            ELSE StoneRight(stones[i]) > 0

\* a stone has crossed the screen and has been removed during the round
ObstacleExitMarginWitness ==
    /\ Pygame
    /\ pc = "tick"
    /\ spawned > 0
    /\ 0 \notin StoneIds(stones)

----------------------------------------------------------------------------
(* C8: Score monotonicity.  Within a round no step lowers the accumulated
   distance or the score, and after every frame update the score is
   floor(distance / 10): the whole tens of the distance, the rest of the
   distance being less than 10. *)
DistLeq(a, b) == a.whole < b.whole \/ (a.whole = b.whole /\ a.frac <= b.frac)

ScoreMonotonicity ==
    [][ /\ (~RoundStart /\ ~Restart) => (DistLeq(distance, distance') /\ score' >= score)
        /\ TickStep => /\ distance'.frac \in 0..(DistUnit - 1)
                       /\ score' = distance'.whole ]_vars

\* a frame has ended with a distance that is no multiple of 10, more than half
\* way to the next point
ScoreMonotonicityWitness ==
    /\ EndOfTick
    /\ ticks > 1
    /\ score > 0
    /\ 2 * distance.frac > DistUnit

----------------------------------------------------------------------------
(* C9: Best-score update at round end.  The frame update that ends a pygame
   round leaves highscore = max(final score, best before) and writes the file
   exactly when the final score is strictly above the best before; a round
   writes at most once, and no other step of a round writes. *)
BestScoreUpdate ==
    [][ Pygame =>
          /\ (TickStep /\ Ended') =>
                /\ highscore' = Max(score', highscore)
                /\ writes' = IF score' > highscore THEN writes + 1 ELSE writes
                /\ score' <= highscore => file' = file
          /\ ~(TickStep /\ Ended') =>
                /\ file' = file
                /\ writes' = writes \/ writes' = 0
                /\ Running' => highscore' = highscore
          /\ writes' <= 1 ]_vars

\* a second round has ended with a score equal to the stored best: nothing is written
BestScoreUpdateWitness ==
    /\ Pygame
    /\ Ended
    /\ rounds = 2
    /\ score > 0
    /\ score = highscore
    /\ writes = 0

----------------------------------------------------------------------------
(* C10: Persistence write failure.  Once the write of an improved best has
   failed, the best the program holds is never below that improved value for
   the rest of the session. *)
BestSurvivesWriteFailure == highscore >= failed_best

----------------------------------------------------------------------------
(* C11: The best score is the highest score ever achieved.  No step of a
   session lowers the best score the program holds; in particular the step
   that leads from an ended round to the next one does not. *)
BestNeverLowered == [][highscore' >= highscore]_vars

----------------------------------------------------------------------------
(* C12: No catch-up.  Between two frames of the pygame game, of any two
   stones in the group the one spawned later has its left edge to the right
   of the right edge of the one spawned earlier. *)
NoCatchUp ==
    (Pygame /\ EndOfTick) =>
        \A i \in 1..Len(stones) : \A j \in 1..Len(stones) :
            stones[i].id < stones[j].id => stones[j].x > StoneRightPg(stones[i])

----------------------------------------------------------------------------
(* C13: Every obstacle eventually leaves.  In a frame update of a running
   round at the nominal frame time every stone that stays in the set moves
   left by a positive amount, and at speed MAX_SPEED by at least the 500th
   part of the way from x = WIDTH to the screen's left edge, so that a stone
   spawned at x = WIDTH is gone within 500 ticks. *)
StoneOf(ss, id) == (CHOOSE i \in 1..Len(ss) : ss[i].id = id)

StonesLeave ==
    [][ (TickStep /\ dt = NominalDt) =>
          \A i \in 1..Len(stones) :
              stones[i].id \in StoneIds(stones') =>
                  LET moved == stones[i].x - stones'[StoneOf(stones', stones[i].id)].x
                  IN  /\ moved > 0
                      /\ speed' = MAX_SPEED => 500 * moved >= (WIDTH + STONE_W) * PosUnit
      ]_vars

----------------------------------------------------------------------------
(* C14: A grounded player cannot survive an obstacle.  When a frame update
   leaves a stone whose horizontal extent overlaps the player's while the
   player stands on the ground baseline, the round is Ended after that
   update. *)
PlayerLeft == IF Pygame THEN PLAYER_X - PLAYER_SIZE \div 2 ELSE PLAYER_X

OverlapsPlayer(s) ==
    /\ s.x < (PlayerLeft + PLAYER_SIZE) * PosUnit
    /\ StoneRight(s) > PlayerLeft * PosUnit

GroundedHit ==
    [][ (TickStep /\ AtBaseline' /\ \E i \in 1..Len(stones') : OverlapsPlayer(stones'[i]))
            => Ended' ]_vars

----------------------------------------------------------------------------
(* C15: Every flight ends, first part.  In a running round, a frame update
   that finds the player standing on the ground, with no jump command
   accepted since the frame before, leaves the player on the ground: at the
   baseline, with velocity 0 and on_ground true. *)
StaysGrounded ==
    [][ (TickStep /\ Running /\ on_ground /\ AtBaseline /\ accepted = 0) =>
            (on_ground' /\ AtBaseline' /\ vel_y' = 0) ]_vars

====
